---- MODULE Spec2Model ----
(***************************************************************************)
(* Verbatim backend: the two authentication variants of the repository     *)
(* (the identity-provider variant of app/main.py and the password-hash     *)
(* variant of app/api/auth.py), the bearer-token guards, the project CRUD  *)
(* handlers of app/api/projects.py and the media endpoints of app/main.py, *)
(* as state machines over the hosted store's tables.                       *)
(*                                                                         *)
(* Time is counted in minutes.  A handler that makes several store calls   *)
(* is one step per store call: the store calls of different requests       *)
(* interleave (several workers, no locking, see section 5 of the spec).    *)
(***************************************************************************)
EXTENDS Integers, Sequences, FiniteSets, TLC

VARIABLES
    variant,          \* which application is deployed: "legacy" (app/main.py) or "api" (app/api/*)
    now,              \* the wall clock, in minutes
    auth_users,       \* the identity provider's user records (supabase.auth)
    users,            \* table "users"
    user_activities,  \* table "user_activities"
    projects,         \* table "projects"
    next_id,          \* the next row id the store hands out
    unique_email,     \* whether table "users" carries a unique constraint on email
    inflight,         \* the requests between two store calls, by worker slot
    gone,             \* ids of the projects a DELETE has answered 204 for
    events,           \* number of requests to the guarded routes and of removals of a user's record
    last              \* the most recent response, with the request it answers

vars == <<variant, now, auth_users, users, user_activities, projects, next_id,
          unique_email, inflight, gone, events, last>>

----------------------------------------------------------------------------
(* Bounds of the model. *)

\* number of clock ticks a behaviour takes
MaxTicks == 2
\* minutes per clock tick
TickMinutes == 15
\* number of row ids the store hands out in a behaviour
MaxIds == 2
\* number of requests that are between two store calls at the same time
MaxInflight == 2

(* Inputs. *)

Emails == {"a@x.com", "b@x.com"}

Passwords == {"pw", "pw2"}

UserNames == {"Ann"}

Salts == {7}

Slots == 1..MaxInflight

----------------------------------------------------------------------------
(* Python helpers. *)

\* Python's None, JSON's null.
None == "None"

\* getattr on a pydantic object: the value, or AttributeError.
getattr(obj, cls, name) ==
    IF name \in DOMAIN obj
    THEN [ok |-> TRUE, value |-> obj[name], error |-> ""]
    ELSE [ok |-> FALSE, value |-> "",
          error |-> "'" \o cls \o "' object has no attribute '" \o name \o "'"]

\* The settings object of app/schemas/config.py (used by app/main.py and
\* app/core/auth.py): exactly the fields the class declares.
settings ==
    [SUPABASE_URL |-> "url", SUPABASE_KEY |-> "anon", SUPABASE_SERVICE_KEY |-> "service",
     SECRET_KEY |-> "k1", GEMINI_API_KEY |-> "gemini", JWT_ALGORITHM |-> "HS256",
     CORS_ORIGINS |-> "http://localhost:3000,http://127.0.0.1:3000"]

\* timedelta(hours=2) of login_user, in minutes
LegacyTokenMinutes == 120

\* The fields of SignupRequest (= UserCreate): email, name, password.
SignupRequest(email, name, password) ==
    [email |-> email, name |-> name, password |-> password]

LoginRequest(email, password) ==
    [email |-> email, password |-> password]

NoToken == [none |-> TRUE]

----------------------------------------------------------------------------
(* Password hashing: a salted one-way digest. *)

PwCode(p) ==
    CASE p = "pw" -> 1 [] p = "pw2" -> 2 [] OTHER -> 3

Digest(salt, p) ==
    (31 * salt + 17 * PwCode(p)) % 101

get_password_hash(password, salt) ==
    [salt |-> salt, digest |-> Digest(salt, password)]

verify_password(plain, hashed) ==
    Digest(hashed.salt, plain) = hashed.digest

----------------------------------------------------------------------------
(* PyJWT, HS256: a token is its payload and a MAC that only the signing    *)
(* key reproduces; the MAC is modelled by the key that made it.            *)

jwt_encode(payload, key) ==
    [payload |-> payload, mac |-> key]

jwt_decode(token, key, t) ==
    IF token.mac # key
    THEN [ok |-> FALSE, error |-> "InvalidSignatureError", payload |-> token.payload]
    ELSE IF token.payload.exp <= t
    THEN [ok |-> FALSE, error |-> "ExpiredSignatureError", payload |-> token.payload]
    ELSE [ok |-> TRUE, error |-> "", payload |-> token.payload]

SigningKeys == {settings.SECRET_KEY, "attacker"}

\* The bearer tokens a client of app/main.py presents.
LegacyTokenInputs ==
    {jwt_encode([sub |-> 1, email |-> e, exp |-> 2 * TickMinutes], k) :
        e \in Emails, k \in SigningKeys}

----------------------------------------------------------------------------
(* The identity provider (supabase.auth). *)

sign_up(au, email, password, idp, dup) ==
    IF idp = "down"
    THEN [ok |-> FALSE, error |-> "upstream error", auth_users |-> au]
    ELSE IF \E u \in au : u.email = email
    THEN IF dup = "raise"
         THEN [ok |-> FALSE, error |-> "User already registered", auth_users |-> au]
         ELSE [ok |-> TRUE, error |-> "", auth_users |-> au]
    ELSE [ok |-> TRUE, error |-> "",
          auth_users |-> au \cup {[id |-> Cardinality(au) + 1, email |-> email,
                                   encrypted_password |-> get_password_hash(password, 1)]}]

sign_in_with_password(au, email, password, idp) ==
    IF idp = "down"
    THEN [ok |-> FALSE, error |-> "upstream error", has_user |-> FALSE, id |-> 0]
    ELSE IF \E u \in au : u.email = email /\ verify_password(password, u.encrypted_password)
    THEN [ok |-> TRUE, error |-> "", has_user |-> TRUE,
          id |-> (CHOOSE u \in au : u.email = email).id]
    ELSE [ok |-> FALSE, error |-> "Invalid login credentials", has_user |-> FALSE, id |-> 0]

----------------------------------------------------------------------------
(* app/main.py: signup_user, login_user; app/core/auth.py: verify_jwt. *)

signup_user(data, au, rows, idp, dup, store_ok, t) ==
    LET r == sign_up(au, data.email, data.password, idp, dup)
    IN  IF ~r.ok
        THEN [status |-> 400, detail |-> "Signup failed: " \o r.error,
              auth_users |-> au, users |-> rows]
        ELSE LET fn == getattr(data, "UserCreate", "full_name")
             IN  IF ~fn.ok
                 THEN [status |-> 400, detail |-> "Signup failed: " \o fn.error,
                       auth_users |-> r.auth_users, users |-> rows]
                 ELSE IF ~store_ok
                 THEN [status |-> 400, detail |-> "Signup failed: store error",
                       auth_users |-> r.auth_users, users |-> rows]
                 ELSE [status |-> 200, detail |-> "Signup successful!",
                       auth_users |-> r.auth_users,
                       users |-> rows \cup {[email |-> data.email, full_name |-> fn.value,
                                             created_at |-> t]}]

login_user(data, au, idp, t) ==
    LET r == sign_in_with_password(au, data.email, data.password, idp)
    IN  IF ~r.ok
        THEN [status |-> 401, detail |-> "Login failed: " \o r.error, access_token |-> NoToken]
        ELSE IF ~r.has_user
        THEN [status |-> 401, detail |-> "Login failed: 401: Invalid email or password",
              access_token |-> NoToken]
        ELSE LET k == getattr(settings, "Settings", "JWT_SECRET")
             IN  IF ~k.ok
                 THEN [status |-> 401, detail |-> "Login failed: " \o k.error,
                       access_token |-> NoToken]
                 ELSE [status |-> 200, detail |-> "Login successful!",
                       access_token |->
                           jwt_encode([sub |-> r.id, email |-> data.email,
                                       exp |-> t + LegacyTokenMinutes], k.value)]

verify_jwt(token, t) ==
    LET k == getattr(settings, "Settings", "JWT_SECRET")
    IN  IF ~k.ok
        THEN [ok |-> FALSE, status |-> 403, detail |-> "Invalid or expired token",
              payload |-> token.payload]
        ELSE LET d == jwt_decode(token, k.value, t)
             IN  IF d.ok
                 THEN [ok |-> TRUE, status |-> 200, detail |-> "", payload |-> d.payload]
                 ELSE [ok |-> FALSE, status |-> 403, detail |-> "Invalid or expired token",
                       payload |-> token.payload]

----------------------------------------------------------------------------
(* app/main.py: the media endpoints.  mode is what the request and the     *)
(* collaborators do: "ok", "not_audio" (the upload is no audio file),      *)
(* "proc_error" (the audio cannot be decoded), "audit_error" (the insert   *)
(* into user_activities raises).                                           *)

MediaModes == {"ok", "not_audio", "proc_error", "audit_error"}

media_response(status, detail, body, acts) ==
    [status |-> status, detail |-> detail, body |-> body, user_activities |-> acts]

log_activity(acts, email, action, t) ==
    acts \cup {[email |-> email, action |-> action, timestamp |-> t]}

transcribe_media(token, mode, acts, t) ==
    LET user == verify_jwt(token, t)
    IN  IF ~user.ok
        THEN media_response(user.status, user.detail, "", acts)
        ELSE IF mode = "not_audio"
        THEN media_response(400, "Only audio files are supported.", "", acts)
        ELSE IF mode = "proc_error"
        THEN media_response(500, "Transcription failed: Audio processing error", "", acts)
        ELSE IF mode = "audit_error"
        THEN media_response(500, "Internal Server Error", "", acts)
        ELSE media_response(200, "", "full_text, srt_content",
                            log_activity(acts, user.payload.email, "transcription", t))

handle_translation(token, mode, acts, t) ==
    LET user == verify_jwt(token, t)
    IN  IF ~user.ok
        THEN media_response(user.status, user.detail, "", acts)
        ELSE IF mode = "audit_error"
        THEN media_response(500, "Internal Server Error", "", acts)
        ELSE media_response(200, "", "translated_text",
                            log_activity(acts, user.payload.email, "translation", t))

handle_tts(token, mode, acts, t) ==
    LET user == verify_jwt(token, t)
    IN  IF ~user.ok
        THEN media_response(user.status, user.detail, "", acts)
        ELSE IF mode = "audit_error"
        THEN media_response(500, "Internal Server Error", "", acts)
        ELSE media_response(200, "", "audio_base64",
                            log_activity(acts, user.payload.email, "voiceover", t))

----------------------------------------------------------------------------
(* app/config.py: the settings of the api variant. *)

ACCESS_TOKEN_EXPIRE_MINUTES == 30

api_settings ==
    [SECRET_KEY |-> "k1", ALGORITHM |-> "HS256",
     ACCESS_TOKEN_EXPIRE_MINUTES |-> ACCESS_TOKEN_EXPIRE_MINUTES]

(* app/core/security: the token codec of the api variant (section 4.2 of   *)
(* the spec): issue signs {data.., exp: now + ttl} with the symmetric key, *)
(* validate returns the payload or nothing.                                *)

create_access_token(data, expires_delta, t) ==
    jwt_encode([sub |-> data.sub, user_id |-> data.user_id, exp |-> t + expires_delta],
               api_settings.SECRET_KEY)

decode_access_token(token, t) ==
    jwt_decode(token, api_settings.SECRET_KEY, t)

----------------------------------------------------------------------------
(* The hosted store: table queries. *)

select_eq(table, column, value) ==
    {r \in table : r[column] = value}

\* insert into "users".  mode is what the store does with the call: "ok",
\* "empty" (the call comes back with no row and has written none), "error"
\* (the call raises).  A unique constraint on email makes a duplicate raise.
insert_user(table, row, unique, mode) ==
    IF mode = "error"
    THEN [raised |-> TRUE, data |-> {}, table |-> table]
    ELSE IF unique /\ select_eq(table, "email", row.email) # {}
    THEN [raised |-> TRUE, data |-> {}, table |-> table]
    ELSE IF mode = "empty"
    THEN [raised |-> FALSE, data |-> {}, table |-> table]
    ELSE [raised |-> FALSE, data |-> {row}, table |-> table \cup {row}]

StoreModes == {"ok", "empty", "error"}

UserResponse(row) ==
    [id |-> row.id, email |-> row.email, name |-> row.name,
     created_at |-> row.created_at, plan_type |-> row.plan_type]

NoUser == [none |-> TRUE]

----------------------------------------------------------------------------
(* app/api/auth.py: signup (two store calls), login, get_current_user. *)

auth_response(status, detail, token, user) ==
    [status |-> status, detail |-> detail, access_token |-> token, user |-> user]

\* signup_check with the lookup made on the wrong column.
signup_check_wrong_column(user, table) ==
    LET existing_user == select_eq(table, "name", user.email)
    IN  IF existing_user # {}
        THEN [proceed |-> FALSE,
              response |-> auth_response(400, "Email already registered", NoToken, NoUser)]
        ELSE [proceed |-> TRUE,
              response |-> auth_response(0, "", NoToken, NoUser)]

\* signup up to its first store call: the existence check.
signup_check(user, table) ==
    LET existing_user == select_eq(table, "email", user.email)
    IN  IF existing_user # {}
        THEN [proceed |-> FALSE,
              response |-> auth_response(400, "Email already registered", NoToken, NoUser)]
        ELSE [proceed |-> TRUE,
              response |-> auth_response(0, "", NoToken, NoUser)]

\* signup from its second store call: the insert, then the token.
signup_insert(user, table, id, salt, unique, mode, t) ==
    LET hashed_password == get_password_hash(user.password, salt)
        new_user == insert_user(table,
                        [id |-> id, email |-> user.email, name |-> user.name,
                         password_hash |-> hashed_password, plan_type |-> "free",
                         created_at |-> t],
                        unique, mode)
    IN  IF new_user.raised
        THEN [response |-> auth_response(500, "Internal Server Error", NoToken, NoUser),
              users |-> new_user.table]
        ELSE IF new_user.data = {}
        THEN [response |-> auth_response(500, "Failed to create user", NoToken, NoUser),
              users |-> new_user.table]
        ELSE LET user_data == CHOOSE r \in new_user.data : TRUE
             IN  [response |->
                      auth_response(201, "",
                          create_access_token(
                              [sub |-> user_data.email, user_id |-> user_data.id],
                              api_settings.ACCESS_TOKEN_EXPIRE_MINUTES, t),
                          UserResponse(user_data)),
                  users |-> new_user.table]

\* login with a message of its own for the unknown email.
login_user_not_found(credentials, result, first, t) ==
    IF result = {}
    THEN auth_response(401, "User not found", NoToken, NoUser)
    ELSE IF ~verify_password(credentials.password, first.password_hash)
    THEN auth_response(401, "Invalid email or password", NoToken, NoUser)
    ELSE auth_response(200, "",
             create_access_token([sub |-> first.email, user_id |-> first.id],
                                 api_settings.ACCESS_TOKEN_EXPIRE_MINUTES, t),
             UserResponse(first))

\* login: result is what the select by email returned, first the row the
\* store lists first (any row of result; NoUser when result is empty).
login(credentials, result, first, t) ==
    IF result = {}
    THEN auth_response(401, "Invalid email or password", NoToken, NoUser)
    ELSE IF ~verify_password(credentials.password, first.password_hash)
    THEN auth_response(401, "Invalid email or password", NoToken, NoUser)
    ELSE auth_response(200, "",
             create_access_token([sub |-> first.email, user_id |-> first.id],
                                 api_settings.ACCESS_TOKEN_EXPIRE_MINUTES, t),
             UserResponse(first))

\* get_current_user that trusts the payload and does not read the user back.
get_current_user_no_refetch(token, table, t) ==
    LET payload == decode_access_token(token, t)
    IN  IF ~payload.ok
        THEN [ok |-> FALSE, status |-> 401,
              detail |-> "Invalid authentication credentials", user |-> NoUser]
        ELSE [ok |-> TRUE, status |-> 200, detail |-> "",
              user |-> [id |-> payload.payload.user_id, email |-> payload.payload.sub,
                        name |-> None, created_at |-> 0, plan_type |-> "free"]]

\* get_current_user: the stricter guard.  A payload field that is absent
\* reads as None.
get_current_user(token, table, t) ==
    LET payload == decode_access_token(token, t)
    IN  IF ~payload.ok
        THEN [ok |-> FALSE, status |-> 401,
              detail |-> "Invalid authentication credentials", user |-> NoUser]
        ELSE IF "sub" \notin DOMAIN payload.payload \/ "user_id" \notin DOMAIN payload.payload
        THEN [ok |-> FALSE, status |-> 401,
              detail |-> "Invalid authentication credentials", user |-> NoUser]
        ELSE LET result == select_eq(table, "id", payload.payload.user_id)
             IN  IF result = {}
                 THEN [ok |-> FALSE, status |-> 401, detail |-> "User not found",
                       user |-> NoUser]
                 ELSE [ok |-> TRUE, status |-> 200, detail |-> "",
                       user |-> CHOOSE r \in result : TRUE]

----------------------------------------------------------------------------
(* The state machine of the two authentication variants. *)

Idle == [op |-> "idle"]

NoResponse == [op |-> "none", status |-> 0]

Init ==
    /\ variant \in {"legacy", "api"}
    /\ now = 0
    /\ auth_users = {}
    /\ users = {}
    /\ user_activities = {}
    /\ projects = {}
    /\ next_id = 1
    /\ unique_email \in BOOLEAN
    /\ (variant = "legacy" => unique_email)
    /\ inflight = [s \in Slots |-> Idle]
    /\ gone = {}
    /\ events = 0
    /\ last = NoResponse

\* A request takes the lowest free worker slot.
FreeSlot(s) ==
    /\ inflight[s] = Idle
    /\ \A s2 \in Slots : s2 < s => inflight[s2] # Idle

\* Rows the requests in flight may still insert.
PendingInserts ==
    Cardinality({s \in Slots : inflight[s].op \in {"signup", "create_project"}})

Tick ==
    /\ now + TickMinutes <= MaxTicks * TickMinutes
    /\ now' = now + TickMinutes
    /\ UNCHANGED <<variant, auth_users, users, user_activities, projects, next_id,
                   unique_email, inflight, gone, events, last>>

\* POST /auth/signup of app/main.py.
SignupUser(email, password, name, idp, dup, store_ok) ==
    /\ variant = "legacy"
    /\ LET r == signup_user(SignupRequest(email, name, password), auth_users, users,
                            idp, dup, store_ok, now)
       IN  /\ auth_users' = r.auth_users
           /\ users' = r.users
           /\ last' = [op |-> "signup_user", email |-> email,
                       taken |-> \E u \in auth_users : u.email = email,
                       idp |-> idp,
                       changed |-> (r.auth_users # auth_users \/ r.users # users),
                       status |-> r.status, detail |-> r.detail]
    /\ UNCHANGED <<variant, now, user_activities, projects, next_id, unique_email,
                   inflight, gone, events>>

\* POST /auth/login of app/main.py.
LoginUser(email, password, idp) ==
    /\ variant = "legacy"
    /\ LET r == login_user(LoginRequest(email, password), auth_users, idp, now)
       IN  last' = [op |-> "login_user", email |-> email,
                    registered |-> \E u \in auth_users : u.email = email,
                    accepted |-> /\ idp = "up"
                                 /\ \E u \in auth_users :
                                       /\ u.email = email
                                       /\ u.encrypted_password = get_password_hash(password, 1),
                    idp |-> idp,
                    status |-> r.status, detail |-> r.detail,
                    access_token |-> r.access_token]
    /\ UNCHANGED <<variant, now, auth_users, users, user_activities, projects, next_id,
                   unique_email, inflight, gone, events>>

MediaStep(op, token, mode, r) ==
    /\ variant = "legacy"
    /\ user_activities' = r.user_activities
    /\ last' = [op |-> op, token |-> token, mode |-> mode,
                authentic |-> /\ token.mac = settings.SECRET_KEY
                              /\ token.payload.exp > now,
                status |-> r.status, detail |-> r.detail, body |-> r.body]
    /\ UNCHANGED <<variant, now, auth_users, users, projects, next_id, unique_email,
                   inflight, gone, events>>

\* POST /transcribe
Transcribe(token, mode) ==
    MediaStep("transcribe", token, mode, transcribe_media(token, mode, user_activities, now))

\* POST /translate
Translate(token, mode) ==
    MediaStep("translate", token, mode, handle_translation(token, mode, user_activities, now))

\* POST /voiceover
Voiceover(token, mode) ==
    MediaStep("voiceover", token, mode, handle_tts(token, mode, user_activities, now))

\* POST /auth/signup of app/api/auth.py: the existence check.
SignupCheck(s, email, password, name) ==
    /\ variant = "api"
    /\ FreeSlot(s)
    /\ LET user == SignupRequest(email, name, password)
           c == signup_check(user, users)
           taken == \E u \in users : u.email = email
       IN  IF c.proceed
           THEN /\ next_id + PendingInserts <= MaxIds
                /\ inflight' = [inflight EXCEPT ![s] =
                                   [op |-> "signup", user |-> user, taken |-> taken]]
                /\ UNCHANGED last
           ELSE /\ last' = [op |-> "signup", email |-> email, taken |-> taken,
                            mode |-> "ok", changed |-> FALSE,
                            status |-> c.response.status, detail |-> c.response.detail,
                            access_token |-> c.response.access_token,
                            user |-> c.response.user]
                /\ UNCHANGED inflight
    /\ UNCHANGED <<variant, now, auth_users, users, user_activities, projects, next_id,
                   unique_email, gone, events>>

\* POST /auth/signup of app/api/auth.py: the insert and the response.
SignupInsert(s, salt, mode) ==
    /\ variant = "api"
    /\ inflight[s].op = "signup"
    /\ LET q == inflight[s]
           r == signup_insert(q.user, users, next_id, salt, unique_email, mode, now)
       IN  /\ users' = r.users
           /\ next_id' = IF r.users # users THEN next_id + 1 ELSE next_id
           /\ last' = [op |-> "signup", email |-> q.user.email, taken |-> q.taken,
                       mode |-> mode, changed |-> (r.users # users),
                       status |-> r.response.status, detail |-> r.response.detail,
                       access_token |-> r.response.access_token,
                       user |-> r.response.user]
    /\ inflight' = [inflight EXCEPT ![s] = Idle]
    /\ UNCHANGED <<variant, now, auth_users, user_activities, projects, unique_email, gone, events>>

\* POST /auth/login of app/api/auth.py.
Login(email, password) ==
    /\ variant = "api"
    /\ LET result == select_eq(users, "email", email)
       IN  \E first \in (IF result = {} THEN {NoUser} ELSE result) :
               LET r == login(LoginRequest(email, password), result, first, now)
               IN  last' = [op |-> "login", email |-> email, password |-> password,
                            registered |-> \E u \in users : u.email = email,
                            status |-> r.status, detail |-> r.detail,
                            access_token |-> r.access_token, user |-> r.user]
    /\ UNCHANGED <<variant, now, auth_users, users, user_activities, projects, next_id,
                   unique_email, inflight, gone, events>>

Next ==
    \/ Tick
    \/ \E e \in Emails, p \in Passwords, n \in UserNames, idp \in {"up", "down"},
          dup \in {"raise", "obfuscate"}, ok \in BOOLEAN :
          SignupUser(e, p, n, idp, dup, ok)
    \/ \E e \in Emails, p \in Passwords, idp \in {"up", "down"} : LoginUser(e, p, idp)
    \/ \E tok \in LegacyTokenInputs, m \in MediaModes : Transcribe(tok, m)
    \/ \E tok \in LegacyTokenInputs, m \in {"ok", "audit_error"} : Translate(tok, m)
    \/ \E tok \in LegacyTokenInputs, m \in {"ok", "audit_error"} : Voiceover(tok, m)
    \/ \E s \in Slots, e \in Emails, p \in Passwords, n \in UserNames :
          SignupCheck(s, e, p, n)
    \/ \E s \in Slots, salt \in Salts, m \in StoreModes : SignupInsert(s, salt, m)
    \/ \E e \in Emails, p \in Passwords : Login(e, p)

Spec == Init /\ [][Next]_vars

----------------------------------------------------------------------------
(* app/api/projects.py: the handlers, one operator per store call. *)

\* number of project rows the store creates in a behaviour
MaxProjects == 2
\* number of requests to the guarded routes, and of removals of a user's
\* record, in a behaviour
MaxEvents == 3

NoRow == [none |-> TRUE]

EmptyDict == [f \in {} |-> ""]

ProjectCreate(name, description) ==
    [name |-> name, description |-> description]

\* What building a response model from a row without a required field raises.
ValidationError == [error |-> "ValidationError"]

\* A field of a row, or the model's default for it.
field_or(row, name, default) ==
    IF name \in DOMAIN row THEN row[name] ELSE default

\* ProjectResponse(**row): name, id, user_id, created_at and updated_at are
\* required; description defaults to None and status to "active"; only
\* description may be None.  An id or timestamp column the store has no
\* value for is a field the row does not have.
ProjectResponse(row) ==
    IF ~ ({"name", "id", "user_id", "created_at", "updated_at"} \subseteq DOMAIN row)
    THEN ValidationError
    ELSE IF \E f \in DOMAIN row \cap {"name", "status"} : row[f] = None
    THEN ValidationError
    ELSE [name |-> row.name, description |-> field_or(row, "description", None),
          id |-> row.id, user_id |-> row.user_id,
          status |-> field_or(row, "status", "active"),
          created_at |-> row.created_at, updated_at |-> row.updated_at]

project_response(status, detail, body, rows) ==
    [status |-> status, detail |-> detail, body |-> body, rows |-> rows]

\* A route returns a response model: the record, or the unhandled
\* ValidationError as a 500.
record_response(status, body) ==
    IF body = ValidationError
    THEN project_response(500, "Internal Server Error", NoRow, <<>>)
    ELSE project_response(status, "", body, <<>>)

\* A route returns a list of response models.
list_response(bodies) ==
    IF \E i \in DOMAIN bodies : bodies[i] = ValidationError
    THEN project_response(500, "Internal Server Error", NoRow, <<>>)
    ELSE project_response(200, "", NoRow, bodies)

\* The rows of a set, newest first (rows of one instant by id, newest first).
RECURSIVE order_desc(_)
order_desc(rows) ==
    IF rows = {}
    THEN <<>>
    ELSE LET newest == CHOOSE r \in rows :
                 \A q \in rows : \/ r.created_at > q.created_at
                                 \/ (r.created_at = q.created_at /\ r.id >= q.id)
         IN  <<newest>> \o order_desc(rows \ {newest})

\* insert into "projects"; mode as for insert_user.  The request sends
\* user_id, name, description and status; the store fills id, created_at and
\* updated_at.
insert_project(table, row, mode) ==
    IF mode = "error"
    THEN [raised |-> TRUE, data |-> {}, table |-> table]
    ELSE IF mode = "empty"
    THEN [raised |-> FALSE, data |-> {}, table |-> table]
    ELSE [raised |-> FALSE, data |-> {row}, table |-> table \cup {row}]

\* update(update_data).eq("id", project_id): the rows as they are afterwards.
\* The request never sends updated_at: the store leaves the column as it is
\* or, with touch, stamps it with the instant of the update.  With not_null
\* the columns name and status refuse a None and the call raises; without,
\* the None is written.
update_rows(table, update_data, project_id, touch, not_null, t) ==
    LET hit == select_eq(table, "id", project_id)
        new(r) == [f \in DOMAIN r |->
                      IF f \in DOMAIN update_data THEN update_data[f]
                      ELSE IF f = "updated_at" /\ touch THEN t
                      ELSE r[f]]
    IN  IF /\ not_null
           /\ hit # {}
           /\ \E f \in DOMAIN update_data \cap {"name", "status"} : update_data[f] = None
        THEN [raised |-> TRUE, data |-> {}, table |-> table]
        ELSE [raised |-> FALSE, data |-> {new(r) : r \in hit},
              table |-> (table \ hit) \cup {new(r) : r \in hit}]

\* delete().eq("id", project_id)
delete_rows(table, project_id) ==
    table \ select_eq(table, "id", project_id)

\* select("*").eq("id", project_id).eq("user_id", current_user["id"])
select_owned(table, project_id, current_user) ==
    select_eq(select_eq(table, "id", project_id), "user_id", current_user.id)

create_project(project, current_user, table, id, mode, t) ==
    LET new_project == insert_project(table,
                           [id |-> id, user_id |-> current_user.id, name |-> project.name,
                            description |-> project.description, status |-> "active",
                            created_at |-> t, updated_at |-> t],
                           mode)
    IN  IF new_project.raised
        THEN [response |-> project_response(500, "Internal Server Error", NoRow, <<>>),
              projects |-> new_project.table]
        ELSE IF new_project.data = {}
        THEN [response |-> project_response(500, "Failed to create project", NoRow, <<>>),
              projects |-> new_project.table]
        ELSE [response |-> record_response(201, ProjectResponse(CHOOSE r \in new_project.data : TRUE)),
              projects |-> new_project.table]

\* get_projects without the filter on the owner.
get_projects_unfiltered(current_user, table) ==
    LET result == order_desc(table)
    IN  list_response([i \in 1..Len(result) |-> ProjectResponse(result[i])])

get_projects(current_user, table) ==
    LET result == order_desc(select_eq(table, "user_id", current_user.id))
    IN  list_response([i \in 1..Len(result) |-> ProjectResponse(result[i])])

\* get_project that looks the id up first and then refuses another owner.
get_project_forbidden(project_id, current_user, table) ==
    LET result == select_eq(table, "id", project_id)
    IN  IF result = {}
        THEN project_response(404, "Project not found", NoRow, <<>>)
        ELSE IF select_eq(result, "user_id", current_user.id) = {}
        THEN project_response(403, "Forbidden", NoRow, <<>>)
        ELSE record_response(200, ProjectResponse(CHOOSE r \in result : TRUE))

get_project(project_id, current_user, table) ==
    LET result == select_owned(table, project_id, current_user)
    IN  IF result = {}
        THEN project_response(404, "Project not found", NoRow, <<>>)
        ELSE record_response(200, ProjectResponse(CHOOSE r \in result : TRUE))

\* update_project up to its first store call: the ownership check.
update_check(project_id, update_data, current_user, table) ==
    LET existing == select_owned(table, project_id, current_user)
    IN  IF existing = {}
        THEN [proceed |-> FALSE,
              response |-> project_response(404, "Project not found", NoRow, <<>>)]
        ELSE IF DOMAIN update_data = {}
        THEN [proceed |-> FALSE,
              response |-> record_response(200, ProjectResponse(CHOOSE r \in existing : TRUE))]
        ELSE [proceed |-> TRUE, response |-> project_response(0, "", NoRow, <<>>)]

\* update_project from its second store call: the write.  A raising store
\* call, updated.data[0] of an empty result (IndexError) and a row
\* ProjectResponse refuses (ValidationError) are not caught.
update_write(project_id, update_data, table, touch, not_null, t) ==
    LET updated == update_rows(table, update_data, project_id, touch, not_null, t)
    IN  IF updated.raised
        THEN [response |-> project_response(500, "Internal Server Error", NoRow, <<>>),
              projects |-> updated.table]
        ELSE IF updated.data = {}
        THEN [response |-> project_response(500, "Internal Server Error", NoRow, <<>>),
              projects |-> updated.table]
        ELSE [response |-> record_response(200, ProjectResponse(CHOOSE r \in updated.data : TRUE)),
              projects |-> updated.table]

\* delete_check with the row looked up by id alone, as the delete itself does.
delete_check_by_id_only(project_id, current_user, table) ==
    LET existing == select_eq(table, "id", project_id)
    IN  IF existing = {}
        THEN [proceed |-> FALSE,
              response |-> project_response(404, "Project not found", NoRow, <<>>)]
        ELSE [proceed |-> TRUE, response |-> project_response(0, "", NoRow, <<>>)]

\* delete_project up to its first store call: the ownership check.
delete_check(project_id, current_user, table) ==
    LET existing == select_owned(table, project_id, current_user)
    IN  IF existing = {}
        THEN [proceed |-> FALSE,
              response |-> project_response(404, "Project not found", NoRow, <<>>)]
        ELSE [proceed |-> TRUE, response |-> project_response(0, "", NoRow, <<>>)]

\* delete_project from its second store call: the delete.
delete_write(project_id, table) ==
    [response |-> project_response(204, "", NoRow, <<>>),
     projects |-> delete_rows(table, project_id)]

\* Table "transcriptions": no route of the repository writes it.
transcriptions == {}

\* TranscriptionResponse(**row): project_id, id and created_at are required;
\* file_url, transcript_text, srt_content and duration may be None.
TranscriptionResponse(row) ==
    IF ~ ({"project_id", "id", "created_at"} \subseteq DOMAIN row)
    THEN ValidationError
    ELSE IF \E f \in DOMAIN row \cap {"language", "status"} : row[f] = None
    THEN ValidationError
    ELSE [project_id |-> row.project_id, language |-> field_or(row, "language", "en-US"),
          id |-> row.id, file_url |-> field_or(row, "file_url", None),
          transcript_text |-> field_or(row, "transcript_text", None),
          srt_content |-> field_or(row, "srt_content", None),
          duration |-> field_or(row, "duration", None),
          status |-> field_or(row, "status", "pending"),
          created_at |-> row.created_at]

\* get_project_transcriptions up to its first store call: the ownership check.
transcriptions_check(project_id, current_user, table) ==
    LET project == select_owned(table, project_id, current_user)
    IN  IF project = {}
        THEN [proceed |-> FALSE,
              response |-> project_response(404, "Project not found", NoRow, <<>>)]
        ELSE [proceed |-> TRUE, response |-> project_response(0, "", NoRow, <<>>)]

\* get_project_transcriptions from its second store call: the select.
transcriptions_read(project_id, table) ==
    LET result == order_desc(select_eq(table, "project_id", project_id))
    IN  list_response([i \in 1..Len(result) |-> TranscriptionResponse(result[i])])

----------------------------------------------------------------------------
(* The state machine of the project routes and /auth/me, behind            *)
(* get_current_user.  The store starts with two registered users, each     *)
(* holding a token issued at minute 0.                                     *)

InitialUsers ==
    {[id |-> 1, email |-> "a@x.com", name |-> "Ann",
      password_hash |-> get_password_hash("pw", 7), plan_type |-> "free", created_at |-> 0],
     [id |-> 2, email |-> "b@x.com", name |-> "Ann",
      password_hash |-> get_password_hash("pw2", 7), plan_type |-> "free", created_at |-> 0]}

\* The bearer tokens a client of the api variant presents: the two users'
\* tokens, one that has expired, one signed with another key.
ApiTokenInputs ==
    {create_access_token([sub |-> u.email, user_id |-> u.id],
                         api_settings.ACCESS_TOKEN_EXPIRE_MINUTES, 0) : u \in InitialUsers}
    \cup {create_access_token([sub |-> "a@x.com", user_id |-> 1],
                              api_settings.ACCESS_TOKEN_EXPIRE_MINUTES,
                              0 - api_settings.ACCESS_TOKEN_EXPIRE_MINUTES),
          jwt_encode([sub |-> "a@x.com", user_id |-> 1,
                      exp |-> api_settings.ACCESS_TOKEN_EXPIRE_MINUTES], "attacker")}

ProjectNames == {"P1"}

\* ProjectUpdate.model_dump(exclude_unset=True): the fields the request
\* sets; every field of ProjectUpdate is Optional, so a request may set one
\* to None.
UpdateInputs ==
    {EmptyDict, [status |-> "archived"], [name |-> "P2"], [status |-> None]}

\* The ids a request names: those the store has handed out and one it never
\* does (0 stands for the routes without an id).
PidInputs == 0..MaxProjects

\* The id the store never assigns: its sequence starts at 1.
NeverId == CHOOSE i \in PidInputs : \A j \in PidInputs : i <= j

KnownPids == {NeverId} \cup 1..(next_id - 1)

InitProjects ==
    /\ variant = "api"
    /\ now = 0
    /\ auth_users = {}
    /\ users = InitialUsers
    /\ user_activities = {}
    /\ projects = {}
    /\ next_id = 1
    /\ unique_email = TRUE
    /\ inflight = [s \in Slots |-> Idle]
    /\ gone = {}
    /\ events = 0
    /\ last = NoResponse

\* The row with request q's project id, as the store holds it.
StoredRow(q) ==
    IF \E r \in projects : r.id = q.pid
    THEN CHOOSE r \in projects : r.id = q.pid
    ELSE NoRow

\* The response r to request q, given at `stage`: "guard" (by the guard),
\* "body" (after the handler's first store call) or "write" (after its
\* second store call); before is the project's row as the store held it when the step
\* began, was_gone whether a DELETE had answered 204 for the id by then.
ProjectLast(q, stage, r) ==
    [op |-> q.op, uid |-> q.uid, stale |-> q.stale, owned |-> q.owned, stage |-> stage,
     pid |-> IF stage = "guard" THEN NeverId ELSE q.pid,
     data |-> IF stage = "guard" THEN EmptyDict ELSE q.data,
     before |-> IF stage = "guard" THEN NoRow ELSE StoredRow(q),
     was_gone |-> stage # "guard" /\ q.pid \in gone,
     status |-> r.status, detail |-> r.detail, body |-> r.body, rows |-> r.rows]

\* A request arrives and runs the guard, its first store call.
StartRequest(s, op, token, pid, data) ==
    /\ variant = "api"
    /\ FreeSlot(s)
    /\ op = "create_project" => next_id + PendingInserts <= MaxProjects
    /\ pid \in KnownPids
    /\ events < MaxEvents
    /\ events' = events + 1
    /\ LET g == get_current_user(token, users, now)
           q == [op |-> op, uid |-> token.payload.user_id, pid |-> pid, data |-> data,
                 stale |-> /\ token.mac = api_settings.SECRET_KEY
                           /\ token.payload.exp > now
                           /\ ~ \E u \in users : u.id = token.payload.user_id,
                 owned |-> FALSE, user |-> g.user]
       IN  IF ~g.ok
           THEN /\ last' = ProjectLast(q, "guard",
                               project_response(g.status, g.detail, NoRow, <<>>))
                /\ UNCHANGED inflight
           ELSE IF op = "get_me"
           THEN /\ last' = ProjectLast(q, "guard",
                               project_response(200, "", UserResponse(g.user), <<>>))
                /\ UNCHANGED inflight
           ELSE /\ inflight' = [inflight EXCEPT ![s] = q]
                /\ UNCHANGED last
    /\ UNCHANGED <<variant, now, auth_users, users, user_activities, projects, next_id,
                   unique_email, gone>>

\* The request in slot s is answered; the requests behind it move up.
Finish(s) ==
    inflight' = [i \in Slots |->
                    IF i < s THEN inflight[i]
                    ELSE IF i + 1 \in Slots THEN inflight[i + 1]
                    ELSE Idle]

\* POST /projects: the insert.
CreateProject(s, mode) ==
    /\ inflight[s].op = "create_project"
    /\ LET q == inflight[s]
           r == create_project(q.data, q.user, projects, next_id, mode, now)
       IN  /\ projects' = r.projects
           /\ next_id' = IF r.projects # projects THEN next_id + 1 ELSE next_id
           /\ last' = ProjectLast(q, "body", r.response)
    /\ Finish(s)
    /\ UNCHANGED <<variant, now, auth_users, users, user_activities, unique_email, gone, events>>

\* GET /projects: the select.
GetProjects(s) ==
    /\ inflight[s].op = "get_projects"
    /\ last' = ProjectLast(inflight[s], "body", get_projects(inflight[s].user, projects))
    /\ Finish(s)
    /\ UNCHANGED <<variant, now, auth_users, users, user_activities, projects, next_id,
                   unique_email, gone, events>>

\* GET /projects/{id}: the select.
GetProject(s) ==
    /\ inflight[s].op = "get_project"
    /\ last' = ProjectLast(inflight[s], "body",
                           get_project(inflight[s].pid, inflight[s].user, projects))
    /\ Finish(s)
    /\ UNCHANGED <<variant, now, auth_users, users, user_activities, projects, next_id,
                   unique_email, gone, events>>

\* The row of request q's project that q's user owns, as the store holds it.
OwnedRow(q) ==
    IF \E r \in projects : r.id = q.pid /\ r.user_id = q.uid
    THEN CHOOSE r \in projects : r.id = q.pid /\ r.user_id = q.uid
    ELSE NoRow

\* PATCH /projects/{id}: the ownership check.
UpdateCheck(s) ==
    /\ inflight[s].op = "update_project"
    /\ ~ ("pc" \in DOMAIN inflight[s])
    /\ LET q == [inflight[s] EXCEPT !.owned = (OwnedRow(inflight[s]) # NoRow)]
           c == update_check(q.pid, q.data, q.user, projects)
       IN  IF c.proceed
           THEN /\ inflight' = [inflight EXCEPT ![s] = q @@ [pc |-> "write"]]
                /\ UNCHANGED last
           ELSE /\ last' = ProjectLast(q, "body", c.response)
                /\ Finish(s)
    /\ UNCHANGED <<variant, now, auth_users, users, user_activities, projects, next_id,
                   unique_email, gone, events>>

\* PATCH /projects/{id}: the write and the response.
UpdateWrite(s, touch, not_null) ==
    /\ inflight[s].op = "update_project"
    /\ "pc" \in DOMAIN inflight[s]
    /\ LET q == inflight[s]
           r == update_write(q.pid, q.data, projects, touch, not_null, now)
       IN  /\ projects' = r.projects
           /\ last' = ProjectLast(q, "write", r.response)
    /\ Finish(s)
    /\ UNCHANGED <<variant, now, auth_users, users, user_activities, next_id,
                   unique_email, gone, events>>

\* DELETE /projects/{id}: the ownership check.
DeleteCheck(s) ==
    /\ inflight[s].op = "delete_project"
    /\ ~ ("pc" \in DOMAIN inflight[s])
    /\ LET q == [inflight[s] EXCEPT !.owned = (OwnedRow(inflight[s]) # NoRow)]
           c == delete_check(q.pid, q.user, projects)
       IN  IF c.proceed
           THEN /\ inflight' = [inflight EXCEPT ![s] = q @@ [pc |-> "write"]]
                /\ UNCHANGED last
           ELSE /\ last' = ProjectLast(q, "body", c.response)
                /\ Finish(s)
    /\ UNCHANGED <<variant, now, auth_users, users, user_activities, projects, next_id,
                   unique_email, gone, events>>

\* DELETE /projects/{id}: the delete and the response.
DeleteWrite(s) ==
    /\ inflight[s].op = "delete_project"
    /\ "pc" \in DOMAIN inflight[s]
    /\ LET q == inflight[s]
           r == delete_write(q.pid, projects)
       IN  /\ projects' = r.projects
           /\ gone' = gone \cup {q.pid}
           /\ last' = ProjectLast(q, "write", r.response)
    /\ Finish(s)
    /\ UNCHANGED <<variant, now, auth_users, users, user_activities, next_id,
                   unique_email, events>>

\* GET /projects/{id}/transcriptions: the ownership check.
TranscriptionsCheck(s) ==
    /\ inflight[s].op = "get_project_transcriptions"
    /\ ~ ("pc" \in DOMAIN inflight[s])
    /\ LET q == [inflight[s] EXCEPT !.owned = (OwnedRow(inflight[s]) # NoRow)]
           c == transcriptions_check(q.pid, q.user, projects)
       IN  IF c.proceed
           THEN /\ inflight' = [inflight EXCEPT ![s] = q @@ [pc |-> "read"]]
                /\ UNCHANGED last
           ELSE /\ last' = ProjectLast(q, "body", c.response)
                /\ Finish(s)
    /\ UNCHANGED <<variant, now, auth_users, users, user_activities, projects, next_id,
                   unique_email, gone, events>>

\* GET /projects/{id}/transcriptions: the select and the response.
TranscriptionsRead(s) ==
    /\ inflight[s].op = "get_project_transcriptions"
    /\ "pc" \in DOMAIN inflight[s]
    /\ last' = ProjectLast(inflight[s], "write",
                           transcriptions_read(inflight[s].pid, transcriptions))
    /\ Finish(s)
    /\ UNCHANGED <<variant, now, auth_users, users, user_activities, projects, next_id,
                   unique_email, gone, events>>

\* Time passes between two requests.
Advance ==
    /\ events < MaxEvents
    /\ events' = events + 1
    /\ now + TickMinutes <= MaxTicks * TickMinutes
    /\ now' = now + TickMinutes
    /\ UNCHANGED <<variant, auth_users, users, user_activities, projects, next_id,
                   unique_email, inflight, gone, last>>

\* The operator of the hosted store removes a user's record.
RemoveUser(id) ==
    /\ \E u \in users : u.id = id
    /\ users' = {u \in users : u.id # id}
    /\ events < MaxEvents
    /\ events' = events + 1
    /\ UNCHANGED <<variant, now, auth_users, user_activities, projects, next_id,
                   unique_email, inflight, gone, last>>

NextProjects ==
    \/ \E s \in Slots, tok \in ApiTokenInputs, n \in ProjectNames :
          StartRequest(s, "create_project", tok, NeverId, ProjectCreate(n, None))
    \/ \E s \in Slots, tok \in ApiTokenInputs, op \in {"get_projects", "get_me"} :
          StartRequest(s, op, tok, NeverId, EmptyDict)
    \/ \E s \in Slots, tok \in ApiTokenInputs, pid \in PidInputs,
          op \in {"get_project", "delete_project", "get_project_transcriptions"} :
          StartRequest(s, op, tok, pid, EmptyDict)
    \/ \E s \in Slots, tok \in ApiTokenInputs, pid \in PidInputs, d \in UpdateInputs :
          StartRequest(s, "update_project", tok, pid, d)
    \/ \E s \in Slots, m \in StoreModes : CreateProject(s, m)
    \/ \E s \in Slots : GetProjects(s)
    \/ \E s \in Slots : GetProject(s)
    \/ \E s \in Slots : UpdateCheck(s)
    \/ \E s \in Slots, touch \in BOOLEAN, not_null \in BOOLEAN :
          UpdateWrite(s, touch, not_null)
    \/ \E s \in Slots : DeleteCheck(s)
    \/ \E s \in Slots : DeleteWrite(s)
    \/ \E s \in Slots : TranscriptionsCheck(s)
    \/ \E s \in Slots : TranscriptionsRead(s)
    \/ \E u \in InitialUsers : RemoveUser(u.id)
    \/ Advance

SpecProjects == InitProjects /\ [][NextProjects]_vars

----------------------------------------------------------------------------
(* Properties of the authentication routes and the media endpoints,        *)
(* checked under Spec.                                                     *)

\* C1: a signup for an email the user store already holds when the request
\* makes its first store call ends with 400 (for app/api/auth.py with the
\* detail "Email already registered"), whatever password and name it
\* carries, never with a success.
C1_SignupTakenEmailConflict ==
    (last.op \in {"signup", "signup_user"} /\ last.taken) =>
        /\ last.status = 400
        /\ last.op = "signup" => last.detail = "Email already registered"

C1_Witness ==
    /\ last.op = "signup"
    /\ last.taken
    /\ last.status = 400
    /\ \E u \in users : u.email = last.email

\* C2: a login with credentials the identity provider accepts answers 200
\* with a token that verify_jwt accepts at every instant before the token's
\* exp and rejects at every instant after it.
C2_IssuedTokenValidatesUntilExpiry ==
    (last.op = "login_user" /\ last.accepted) =>
        /\ last.status = 200
        /\ now < last.access_token.payload.exp => verify_jwt(last.access_token, now).ok
        /\ now > last.access_token.payload.exp => ~verify_jwt(last.access_token, now).ok

\* C4: in every store the service reaches, a login with a registered email
\* and a wrong password and a login with an unregistered email get the same
\* response: status 401 and the same message.
C4_LoginDoesNotRevealRegistration ==
    /\ variant = "api" =>
          \A e1 \in Emails, e2 \in Emails, p1 \in Passwords, p2 \in Passwords :
              \A first \in select_eq(users, "email", e1) :
                  (/\ ~verify_password(p1, first.password_hash)
                   /\ select_eq(users, "email", e2) = {}) =>
                      LET r1 == login(LoginRequest(e1, p1), select_eq(users, "email", e1),
                                      first, now)
                          r2 == login(LoginRequest(e2, p2), {}, NoUser, now)
                      IN  r1.status = 401 /\ r1 = r2
    /\ variant = "legacy" =>
          \A e1 \in Emails, e2 \in Emails, p1 \in Passwords, p2 \in Passwords :
              (/\ \E u \in auth_users :
                     u.email = e1 /\ ~verify_password(p1, u.encrypted_password)
               /\ ~ \E u \in auth_users : u.email = e2) =>
                  LET r1 == login_user(LoginRequest(e1, p1), auth_users, "up", now)
                      r2 == login_user(LoginRequest(e2, p2), auth_users, "up", now)
                  IN  r1.status = 401 /\ r1 = r2

C4_Witness ==
    /\ last.op = "login"
    /\ last.registered
    /\ last.status = 401
    /\ \E first \in select_eq(users, "email", last.email) :
          ~verify_password(last.password, first.password_hash)
    /\ \E e2 \in Emails : select_eq(users, "email", e2) = {}

\* C8: a signup that ends in a failure response has left the store (the
\* identity records and table "users") as it was before the request.
C8_FailedSignupLeavesStoreUnchanged ==
    (last.op \in {"signup", "signup_user"} /\ last.status >= 400) => ~last.changed

\* C9: a media request with a token signed with the configured secret and
\* not expired, whose processing succeeds and whose audit-row insert fails,
\* gets the success payload.
C9_AuditFailureNotSurfaced ==
    (/\ last.op \in {"transcribe", "translate", "voiceover"}
     /\ last.authentic
     /\ last.mode = "audit_error") =>
        last.status = 200 /\ last.body # ""

\* C10: with the store enforcing unique emails, the user store never holds
\* two records with one email, and a signup that does not succeed, the store
\* answering its calls, ends with 400 "Email already registered".
C10_ConcurrentSignupOneWinner ==
    (variant = "api" /\ unique_email) =>
        /\ \A u1 \in users, u2 \in users : u1.email = u2.email => u1 = u2
        /\ (last.op = "signup" /\ last.mode = "ok" /\ last.status # 201) =>
              last.status = 400 /\ last.detail = "Email already registered"

----------------------------------------------------------------------------
(* Properties of the project routes, checked under SpecProjects. *)

GuardedRoutes ==
    {"get_me", "create_project", "get_projects", "get_project", "update_project",
     "delete_project", "get_project_transcriptions"}

\* C3: every row GET /projects returns to a user is a project that user
\* owns, after any sequence of creates, updates and deletes by any users.
C3_ListOnlyOwnProjects ==
    (last.op = "get_projects" /\ last.stage = "body") =>
        \A i \in DOMAIN last.rows : last.rows[i].user_id = last.uid

C3_Witness ==
    /\ last.op = "get_projects"
    /\ last.stage = "body"
    /\ Len(last.rows) >= 1
    /\ \E p \in projects : p.user_id # last.uid

\* C5: GET /projects/{id} for an id that exists and is owned by another user
\* answers 404 with the response an id that does not exist gets: not 403,
\* and no project record.
C5_ForeignProjectLooksAbsent ==
    (/\ last.op = "get_project"
     /\ last.stage = "body"
     /\ last.before # NoRow
     /\ last.before.user_id # last.uid) =>
        /\ last.status = 404
        /\ last.body = NoRow
        /\ project_response(last.status, last.detail, last.body, last.rows)
               = get_project(NeverId, [id |-> last.uid], projects)

C5_Witness ==
    /\ last.op = "get_project"
    /\ last.stage = "body"
    /\ last.before # NoRow
    /\ last.before.user_id # last.uid
    /\ last.status = 404

\* C6: a PATCH that sets only status, to whatever value ProjectUpdate
\* accepts, returns the stored record with status set to that value and
\* name, description, id, user_id and created_at as they were (updated_at
\* is the store's to stamp); a DELETE of a
\* project its requester owns answers 204; and a GET of an id a DELETE has
\* answered 204 for answers 404.
C6_PatchDeleteGet ==
    /\ (/\ last.op = "update_project"
        /\ last.stage = "write"
        /\ DOMAIN last.data = {"status"}
        /\ last.before # NoRow) =>
           /\ last.status = 200
           /\ last.body # NoRow
           /\ DOMAIN last.body = DOMAIN last.before
           /\ last.body.status = last.data.status
           /\ \A f \in DOMAIN last.before \ {"status", "updated_at"} :
                  last.body[f] = last.before[f]
    /\ (last.op = "delete_project" /\ last.owned) => last.status = 204
    /\ (last.op = "get_project" /\ last.was_gone) => last.status = 404

\* C7: a request to a guarded route that presents a correctly signed,
\* unexpired token of a user whose record is no longer in the user store is
\* answered 401 by the guard, and never enters a handler.
C7_RemovedUserRejected ==
    /\ (last.op \in GuardedRoutes /\ last.stale) =>
           last.status = 401 /\ last.stage = "guard"
    /\ \A s \in Slots : inflight[s] # Idle => ~inflight[s].stale

C7_Witness ==
    /\ last.op = "create_project"
    /\ last.stale
    /\ last.status = 401
    /\ last.detail = "User not found"

\* C11: a PATCH /projects/{id} whose write finds no row, a DELETE of the id
\* by the owner having run between the PATCH's ownership check and its
\* write, ends with 404 (or with the updated record), never in an unhandled
\* error.
C11_PatchEndsUpdatedOrNotFound ==
    (/\ last.op = "update_project"
     /\ last.stage = "write"
     /\ last.before = NoRow) =>
        \/ last.status = 200 /\ last.body # NoRow
        \/ last.status = 404

\* C12: a PATCH or DELETE by a user on a project another user owns answers
\* 404 and leaves table projects as it was, and every step that changes or
\* removes a row of projects answers a PATCH or DELETE of that row's id by
\* the row's owner.
C12_OnlyOwnerModifiesOrRemoves ==
    [][/\ \A r \in projects :
            r \notin projects' =>
                /\ last'.op \in {"update_project", "delete_project"}
                /\ last'.stage = "write"
                /\ last'.pid = r.id
                /\ last'.uid = r.user_id
       /\ (/\ last'.op \in {"update_project", "delete_project"}
           /\ last'.stage # "guard"
           /\ last'.before # NoRow
           /\ last'.before.user_id # last'.uid) =>
               /\ last'.status = 404
               /\ last'.stage = "body"
               /\ projects' = projects]_vars

C12_Witness ==
    /\ last.op \in {"update_project", "delete_project"}
    /\ last.stage = "body"
    /\ last.before # NoRow
    /\ last.before.user_id # last.uid
    /\ last.status = 404
    /\ \E r \in projects : r.id = last.pid /\ r.user_id # last.uid

====
